---- MODULE Spec2Model ----
(***************************************************************************)
(* Breathing halftone engine of DigeratiDesign/digerati-rebrand:           *)
(* the BreathingHalftone controller (lifecycle, pixel sampling, grid       *)
(* building) as a state machine.                                           *)
(*                                                                         *)
(* Numbers.  JavaScript numbers are modelled in fixed point (a value that   *)
(* sits exactly on a rounding boundary may round the other way in doubles): *)
(*   - surface coordinates and lengths are integers counting 1/F of a      *)
(*     CSS pixel;                                                          *)
(*   - channel intensities are integers counting 1/Unit, Unit = 2 * 255,   *)
(*     so that byte / 255 and (max + min) / 2 are both exact;              *)
(*   - NaN (the result of undefined / 255) is the value NaN below.         *)
(***************************************************************************)
EXTENDS Integers, Sequences, FiniteSets, TLC

VARIABLES
    supports,       \* module record { canvas, darker }
    options,        \* this.options (defaults merged with the caller's options)
    source,         \* the host <img>: decoded pixels, natural size, laid-out box, whether it decodes
    imgStyle,       \* this.img.style { visibility, display }
    canvas,         \* this.canvas: "none" (never created), "attached" or "detached"
    proxyCanvases,  \* channels that own an off-screen canvas
    channels,       \* this.channels
    cursors,        \* this.cursors: identifier -> { position, isDown }
    listeners,      \* registered event listeners, <<target, type>>
    isActive,       \* this.isActive
    loadingImg,     \* "none", "pending" (onload registered, not fired) or "fired"
    imgWidth,       \* this.imgWidth
    imgHeight,      \* this.imgHeight
    imgData,        \* this.imgData, a 0-based byte array kept as a sequence
    width,          \* this.width
    height,         \* this.height
    diagonal,       \* this.diagonal, in 1/F
    gridSize,       \* this.gridSize, in 1/F
    particles,      \* this.particles, in creation order
    raf,            \* number of requestAnimationFrame callbacks waiting to run
    frames,         \* number of animate() runs so far (update + render)
    thrown,         \* exception raised by the last call, or "none"
    calls,          \* how often the host called { construct, destroy }
    steps,          \* the steps onImgLoad has executed, in order
    probe,          \* last getPixelChannelValue probe (sampler specification)
    grid,           \* last grid build (grid specification)
    particle,       \* the Particle followed frame by frame (particle specification)
    pointers,       \* host side: touches in contact, the last DOM event dispatched,
                    \* and the number of events dispatched
    tally           \* the Tally modal of the page: clock, modal, preloader, timers

vars == <<supports, options, source, imgStyle, canvas, proxyCanvases, channels,
          cursors, listeners, isActive, loadingImg, imgWidth, imgHeight, imgData,
          width, height, diagonal, gridSize, particles, raf, frames, thrown, calls, steps,
          probe, grid, particle, pointers, tally>>

-----------------------------------------------------------------------------
(* Bounds of the model *)

MaxImgDim == 2      \* source images are 1..MaxImgDim pixels wide and high
MaxBox == 2         \* the laid-out box is 1..MaxBox CSS pixels wide and high
MaxFrames == 3      \* animate() runs counted up to here
MaxDestroy == 2     \* destroy() calls counted up to here
MaxEvents == 1      \* DOM events dispatched while one particle is followed
MaxWaited == 2      \* frames in a row the followed particle stays invisible
MaxUpdates == 40    \* calculateSize() runs of the followed particle counted up to here

-----------------------------------------------------------------------------
(* Numbers *)

F == 1000
Byte == 255
Unit == 2 * Byte
NaN == -1
\* a coordinate, a scale factor or a loop bound that is NaN, and one that is
\* Infinity: no number of the model comes near them
NaNComponent == -1073741824
Infinity == 1073741823
ROOT_2 == 1414
PI == 3142
TAU == 2 * PI

Max(a, b) == IF a >= b THEN a ELSE b
Min(a, b) == IF a <= b THEN a ELSE b
Abs(a) == IF a < 0 THEN -a ELSE a

\* Math.round(n / d) for d > 0: the nearest integer, halves towards +Infinity
MathRound(n, d) == (2 * n + d) \div (2 * d)

\* Math.ceil(n / d): 0 / 0 is NaN, and n / 0 is Infinity or -Infinity
MathCeil(n, d) ==
    IF d = 0 THEN (IF n = 0 THEN NaNComponent ELSE IF n > 0 THEN Infinity ELSE -Infinity)
    ELSE IF d > 0 THEN -((-n) \div d)
    ELSE -(n \div (-d))

\* mutant: a NaN bound lets the loop body run once
LoopRuns_NaNRunsOnce(bound) == IF bound = NaNComponent THEN 1 ELSE IF bound >= 0 THEN bound ELSE 0

\* the number of runs of `for (i = 0; i < bound; i++)` whose bound is finite or
\* NaN: i < NaN is false
LoopRuns(bound) == IF bound = NaNComponent THEN 0 ELSE IF bound >= 0 THEN bound ELSE 0

\* Math.sqrt of an integer n >= 0, in 1/F, rounded down: the whole part first,
\* then the 1/F steps above it
MathSqrt(n) ==
    CHOOSE r \in { i * F + f : i \in { j \in 0..n : j * j <= n /\ n < (j + 1) * (j + 1) },
                               f \in 0..(F - 1) } :
        r * r <= n * F * F /\ n * F * F < (r + 1) * (r + 1)

\* Math.cos of an angle in 1/F radians, in 1/F
CosQuarter(x) == ((PI * PI - 4 * x * x) * 100) \div ((PI * PI + x * x) \div 10)

MathCos(a) ==
    LET r == a % TAU
        x == IF r > PI THEN r - TAU ELSE r
        ax == Abs(x)
    IN IF 2 * ax <= PI THEN CosQuarter(ax) ELSE -CosQuarter(PI - ax)

MathSin(a) == MathCos(a - PI \div 2)

-----------------------------------------------------------------------------
(* Inputs: source images, laid-out boxes, options *)

\* RGB byte triples the source images are painted with
Palette == << <<0, 0, 0>>, <<255, 255, 255>>, <<10, 128, 200>> >>

Colours == 1..Len(Palette)

Channels == {"red", "green", "blue", "lum"}

\* colour of pixel (x, y): a checkerboard of a and b, or a top row of a over b
PixelColour(kind, a, b, x, y) ==
    IF kind = "checker" THEN (IF (x + y) % 2 = 0 THEN a ELSE b)
                        ELSE (IF y = 0 THEN a ELSE b)

\* the RGBA bytes getImageData returns for a w x h image, row by row
ImageData(w, h, kind, a, b) ==
    [i \in 1..(4 * w * h) |->
        LET p == (i - 1) \div 4
            c == (i - 1) % 4
        IN IF c = 3 THEN Byte
           ELSE Palette[PixelColour(kind, a, b, p % w, p \div w)][c + 1]]

ImagesOf(kinds, as, bs) ==
    { [naturalWidth |-> w, naturalHeight |-> h, data |-> ImageData(w, h, kind, a, b)] :
        w \in 1..MaxImgDim, h \in 1..MaxImgDim, kind \in kinds, a \in as, b \in bs }

Images == ImagesOf({"checker", "rows"}, Colours, Colours)

Boxes == { [offsetWidth |-> w, offsetHeight |-> h] : w \in 1..MaxBox, h \in 1..MaxBox }

\* the host <img>: a decoded image, its laid-out box, and whether it decodes at all
Sources(images, boxes, decodes) ==
    { [naturalWidth |-> i.naturalWidth, naturalHeight |-> i.naturalHeight, data |-> i.data,
       offsetWidth |-> b.offsetWidth, offsetHeight |-> b.offsetHeight, decodes |-> d] :
        i \in images, b \in boxes, d \in decodes }

\* dotSize values, in 1/F of the diagonal: 1, 1/2
DotSizes == {F, F \div 2}

\* dotSizeThreshold values, in 1/Unit: 0.5, 1.0
Thresholds == {Unit \div 2, Unit}

ChannelLists == { <<"red", "green", "blue">>, <<"lum">> }

\* static defaults, in 1/F, for the options the inputs below leave alone
defaults ==
    [initVelocity |-> 20, oscAmplitude |-> 200, isChannelLens |-> TRUE, friction |-> 60,
     hoverDiameter |-> 300, hoverForce |-> -20, activeDiameter |-> 600, activeForce |-> 10]

\* this.options = { ...defaults, ...options }
OptionsOf(dotSizes, thresholds, additive, radial, chanLists) ==
    { [dotSize |-> s, dotSizeThreshold |-> t, isAdditive |-> a, isRadial |-> r, channels |-> c,
       initVelocity |-> defaults.initVelocity, oscAmplitude |-> defaults.oscAmplitude,
       isChannelLens |-> defaults.isChannelLens, friction |-> defaults.friction,
       hoverDiameter |-> defaults.hoverDiameter, hoverForce |-> defaults.hoverForce,
       activeDiameter |-> defaults.activeDiameter, activeForce |-> defaults.activeForce] :
        s \in dotSizes, t \in thresholds, a \in additive, r \in radial, c \in chanLists }

-----------------------------------------------------------------------------
(* ChannelSampler: getPixelChannelValue / getPixelLum *)

\* byte offset of a colour channel inside an RGBA pixel
channelOffset(channel) ==
    CASE channel = "red" -> 0
      [] channel = "green" -> 1
      [] channel = "blue" -> 2
      [] OTHER -> NaN

\* imgData[index] / 255, in 1/Unit; reading past the array gives undefined / 255 = NaN
ByteValue(this, index) ==
    IF index \in 0..(Len(this.imgData) - 1) THEN 2 * this.imgData[index + 1] ELSE NaN

getPixelLum(this, pixelIndex) ==
    LET r == ByteValue(this, pixelIndex + 0)
        g == ByteValue(this, pixelIndex + 1)
        b == ByteValue(this, pixelIndex + 2)
    IN IF r = NaN \/ g = NaN \/ b = NaN THEN NaN
       ELSE (Max(r, Max(g, b)) + Min(r, Min(g, b))) \div 2

\* mutant: the fallback `|| 0` dropped
OrZero_Dropped(value) == value

\* value = value || 0
OrZero(value) == IF value = NaN THEN 0 ELSE value

\* mutant: the bounds test dropped
OutOfImage_Never(this, x, y) == FALSE

\* the bounds test of getPixelChannelValue on the rounded pixel coordinate
OutOfImage(this, x, y) == x < 0 \/ x > this.imgWidth \/ y < 0 \/ y > this.imgHeight

\* mutant: the value is inverted against the byte range instead of against 1
Polarity_ByteRange(value, isAdditive) == IF isAdditive THEN value ELSE Byte - value

\* if (!isAdditive) value = 1 - value
Polarity(value, isAdditive) == IF isAdditive THEN value ELSE Unit - value

\* this: the instance fields { imgWidth, imgHeight, imgData, width, height, diagonal,
\* gridSize }.
\* x, y: surface coordinates in 1/F; the result is an intensity in 1/Unit.
\* imgScale = width / imgWidth; with width = 0 the division gives +-Infinity
\* (caught by the bounds test) or, for a coordinate 0, NaN (not caught: every
\* comparison with NaN is false, and imgData[NaN] is undefined).  A NaN
\* coordinate passes the bounds test the same way.
getPixelChannelValue(this, x, y, channel, isAdditive) ==
    IF x = NaNComponent \/ y = NaNComponent
    THEN Polarity(OrZero(NaN), isAdditive)
    ELSE IF this.width = 0
    THEN IF x # 0 \/ y # 0 THEN 0 ELSE Polarity(OrZero(NaN), isAdditive)
    ELSE LET px == MathRound(x * this.imgWidth, this.width * F)
             py == MathRound(y * this.imgWidth, this.width * F)
             pixelIndex == (px + py * this.imgWidth) * 4
             value == IF channel = "lum" THEN getPixelLum(this, pixelIndex)
                      ELSE IF channelOffset(channel) = NaN THEN NaN
                      ELSE ByteValue(this, pixelIndex + channelOffset(channel))
         IN IF OutOfImage(this, px, py) THEN 0
            ELSE Polarity(OrZero(value), isAdditive)

\* the pixel a surface coordinate maps to (width > 0)
MappedPixel(this, x, y) ==
    <<MathRound(x * this.imgWidth, this.width * F), MathRound(y * this.imgWidth, this.width * F)>>

-----------------------------------------------------------------------------
(* GridBuilder: getCartesianGridParticles / getRadialGridParticles / initParticle *)

\* const angles = { red: 1, green: 2.5, blue: 5, lum: 4 }, in 1/F radians
angles(channel) ==
    CASE channel = "red" -> 1 * F
      [] channel = "green" -> (5 * F) \div 2
      [] channel = "blue" -> 5 * F
      [] channel = "lum" -> 4 * F

\* resizeCanvas: this.diagonal = Math.sqrt(w * w + h * h)
Diagonal(w, h) == MathSqrt(w * w + h * h)

\* resizeCanvas: this.gridSize = this.options.dotSize * this.diagonal
GridSize(w, h, opts) == (opts.dotSize * Diagonal(w, h)) \div F

\* mutant: every candidate becomes a particle
initParticle_NoThreshold(this, channel, x, y, opts) ==
    << [channel |-> channel, origin |-> <<x, y>>,
        naturalSize |-> (this.gridSize * ROOT_2) \div (2 * F)] >>

\* mutant: an intensity equal to the threshold is pruned too
initParticle_LessOrEqual(this, channel, x, y, opts) ==
    IF getPixelChannelValue(this, x, y, channel, opts.isAdditive) <= opts.dotSizeThreshold
    THEN << >>
    ELSE << [channel |-> channel, origin |-> <<x, y>>,
             naturalSize |-> (this.gridSize * ROOT_2) \div (2 * F)] >>

\* the particle initParticle creates at (x, y), as a sequence of zero or one particle
initParticle(this, channel, x, y, opts) ==
    IF getPixelChannelValue(this, x, y, channel, opts.isAdditive) < opts.dotSizeThreshold
    THEN << >>
    ELSE << [channel |-> channel, origin |-> <<x, y>>,
             naturalSize |-> (this.gridSize * ROOT_2) \div (2 * F)] >>

\* Math.max(w, h) * ROOT_2
GridDiag(this) == Max(this.width, this.height) * ROOT_2

\* mutant: the lattice is cut to whole cells (Math.floor)
CartesianCols_Floor(this, opts) == GridDiag(this) \div this.gridSize

\* cols = rows = Math.ceil(diag / gridSize)
CartesianCols(this, opts) == MathCeil(GridDiag(this), this.gridSize)

\* the lattice point of (row, col), rotated by angle around the surface centre
CartesianOrigin(this, row, col, angle, opts) ==
    LET w == this.width * F
        h == this.height * F
        x1 == ((2 * col + 1) * this.gridSize) \div 2 - (GridDiag(this) - w) \div 2 - w \div 2
        y1 == ((2 * row + 1) * this.gridSize) \div 2 - (GridDiag(this) - h) \div 2 - h \div 2
        x2 == (x1 * MathCos(angle) - y1 * MathSin(angle)) \div F
        y2 == (x1 * MathSin(angle) + y1 * MathCos(angle)) \div F
    IN <<x2 + w \div 2, y2 + h \div 2>>

\* candidate origins in loop order: row by row, column by column
CartesianCandidates(this, angle, opts) ==
    LET cols == LoopRuns(CartesianCols(this, opts))
    IN [k \in 1..(cols * cols) |->
            CartesianOrigin(this, (k - 1) \div cols, (k - 1) % cols, angle, opts)]

\* const maxLevel = Math.ceil((diag + offset) / gridSize), offset = gridSize
RadialMaxLevel(this, opts) ==
    MathCeil(GridDiag(this) + this.gridSize, this.gridSize)

\* mutant: the `|| 1` of the centre ring dropped
RingSize_NoCentre(level) == level * 6

\* const max = level * 6 || 1
RingSize(level) == IF level * 6 = 0 THEN 1 ELSE level * 6

\* point j of ring level
RadialOrigin(this, level, j, angle, opts) ==
    LET g == this.gridSize
        centerX == (this.width * F) \div 2 + (MathCos(angle) * g) \div F
        centerY == (this.height * F) \div 2 + (MathSin(angle) * g) \div F
        theta == (TAU * j) \div RingSize(level) + angle
    IN <<centerX + (MathCos(theta) * level * g) \div F,
         centerY + (MathSin(theta) * level * g) \div F>>

RECURSIVE RadialCandidatesFrom(_, _, _, _)
RadialCandidatesFrom(this, level, angle, opts) ==
    IF level >= LoopRuns(RadialMaxLevel(this, opts)) THEN << >>
    ELSE [j \in 1..RingSize(level) |-> RadialOrigin(this, level, j - 1, angle, opts)]
         \o RadialCandidatesFrom(this, level + 1, angle, opts)

RadialCandidates(this, angle, opts) == RadialCandidatesFrom(this, 0, angle, opts)

\* initParticle on every candidate in loop order; `if (particle) particles.push(particle)`
\* keeps the particles it returns
InitParticles(this, candidates, channel, opts) ==
    LET Made(cs) == [k \in 1..Len(cs) |-> initParticle(this, channel, cs[k][1], cs[k][2], opts)]
        Pushed(made) == SelectSeq(made, LAMBDA m : m # << >>)
        Particles(kept) == [k \in 1..Len(kept) |-> kept[k][1]]
    IN CHOOSE ps \in { Particles(kept) :
                          kept \in { Pushed(Made(cs)) : cs \in {candidates} } } : TRUE

getCartesianGridParticles(this, channel, angle, opts) ==
    InitParticles(this, CartesianCandidates(this, angle, opts), channel, opts)

getRadialGridParticles(this, channel, angle, opts) ==
    InitParticles(this, RadialCandidates(this, angle, opts), channel, opts)

\* the bound of the builder's outer loop, by options.isRadial
GridLoopBound(this, opts) ==
    IF opts.isRadial THEN RadialMaxLevel(this, opts) ELSE CartesianCols(this, opts)

\* the candidates and the particles of one channel, by options.isRadial
GridCandidates(this, channel, opts) ==
    IF opts.isRadial THEN RadialCandidates(this, angles(channel), opts)
                     ELSE CartesianCandidates(this, angles(channel), opts)

GridParticles(this, channel, opts) ==
    IF opts.isRadial THEN getRadialGridParticles(this, channel, angles(channel), opts)
                     ELSE getCartesianGridParticles(this, channel, angles(channel), opts)

\* initParticles: this.particles = concatenation of the channels' grids
RECURSIVE initParticles(_, _, _, _)
initParticles(this, chans, k, opts) ==
    IF k > Len(chans) THEN << >>
    ELSE GridParticles(this, chans[k], opts) \o initParticles(this, chans, k + 1, opts)

-----------------------------------------------------------------------------
(* Vector and Particle: constructor / update / calculateSize / getChannelValue /  *)
(* render.  Positions, velocities and forces are in 1/F pixel; size,              *)
(* sizeVelocity and targetSize are in 1/(F*F) pixel; factors are in 1/F.          *)

\* x + y, x - y and x * k of doubles: NaN as soon as an operand is NaN
Plus(x, y) == IF x = NaNComponent \/ y = NaNComponent THEN NaNComponent ELSE x + y
Minus(x, y) == IF x = NaNComponent \/ y = NaNComponent THEN NaNComponent ELSE x - y
Times(x, k) == IF x = NaNComponent \/ k = NaNComponent THEN NaNComponent ELSE MathRound(x * k, F)

IsFinite(v) == v[1] # NaNComponent /\ v[2] # NaNComponent

add(a, b) == <<Plus(a[1], b[1]), Plus(a[2], b[2])>>
subtract(a, b) == <<Minus(a[1], b[1]), Minus(a[2], b[2])>>
scale(v, k) == <<Times(v[1], k), Times(v[2], k)>>

\* Vector.magnitude, rounded down
magnitude(v) ==
    IF ~IsFinite(v) THEN NaNComponent
    ELSE CHOOSE r \in 0..(Abs(v[1]) + Abs(v[2])) :
            r * r <= v[1] * v[1] + v[2] * v[2] /\ v[1] * v[1] + v[2] * v[2] < (r + 1) * (r + 1)

\* originChannelValue before its first read
Undefined == -2

\* new Particle({ channel, parent, origin, naturalSize, friction }); rand is the
\* Math.random() of initSizeVelocity.  targetSize, radius and updates record the
\* last target of calculateSize, the last radius of render and the number of
\* calculateSize runs; waited counts the update() calls in a row that returned
\* at the visibility test.
Particle(data, opts, rand) ==
    [live |-> TRUE, channel |-> data.channel, origin |-> data.origin, friction |-> opts.friction,
     position |-> data.origin, velocity |-> <<0, 0>>, acceleration |-> <<0, 0>>,
     naturalSize |-> data.naturalSize, size |-> 0, sizeVelocity |-> 0, oscSize |-> 0,
     initSize |-> 0, initSizeVelocity |-> ((rand \div 2 + F \div 2) * opts.initVelocity) \div F,
     isVisible |-> FALSE, originChannelValue |-> Undefined,
     targetSize |-> 0, radius |-> 0, updates |-> 0, waited |-> 0]

applyForce(p, force) == [p EXCEPT !.acceleration = add(@, force)]

\* the sample getChannelValue returns: at the position with isChannelLens, else
\* at the origin, read once and kept
getChannelValue(p, this, opts) ==
    IF opts.isChannelLens
    THEN getPixelChannelValue(this, p.position[1], p.position[2], p.channel, opts.isAdditive)
    ELSE IF p.originChannelValue = Undefined
         THEN getPixelChannelValue(this, p.position[1], p.position[2], p.channel, opts.isAdditive)
         ELSE p.originChannelValue

\* mutant: the velocity is not damped
SettleVelocity_Undamped(sizeVelocity, sizeAcceleration) == sizeVelocity + sizeAcceleration

\* sizeVelocity += sizeAcceleration; sizeVelocity *= 1 - 0.3
SettleVelocity(sizeVelocity, sizeAcceleration) ==
    MathRound((sizeVelocity + sizeAcceleration) * 7, 10)

\* cosine is Math.cos(now / (1000 * oscPeriod) * TAU + oscillationOffset)
calculateSize(p, this, opts, cosine) ==
    LET value == getChannelValue(p, this, opts)
        targetSize == p.naturalSize * ((value * F) \div Unit)
        sizeAcceleration == MathRound(targetSize - p.size, 10)
        sizeVelocity == SettleVelocity(p.sizeVelocity, sizeAcceleration)
    IN [p EXCEPT !.initSize = IF @ # F THEN Min(F, @ + p.initSizeVelocity) ELSE @,
                 !.originChannelValue = IF opts.isChannelLens THEN @ ELSE value,
                 !.targetSize = targetSize,
                 !.sizeVelocity = sizeVelocity,
                 !.size = @ + sizeVelocity,
                 !.oscSize = (cosine * opts.oscAmplitude) \div F + F,
                 !.updates = Min(@ + 1, MaxUpdates)]

\* attraction = (position - origin) * -0.02
applyOriginAttraction(p) == applyForce(p, scale(subtract(p.position, p.origin), -20))

\* Particle.update; shows is the outcome of `Math.random() > 0.03` being false
update(p, this, opts, shows, cosine) ==
    IF ~p.isVisible /\ ~shows THEN [p EXCEPT !.waited = Min(@ + 1, MaxWaited)]
    ELSE LET a == applyOriginAttraction([p EXCEPT !.waited = 0])
             velocity == scale(add(a.velocity, a.acceleration), F - a.friction)
         IN calculateSize([a EXCEPT !.isVisible = TRUE,
                                    !.velocity = velocity,
                                    !.position = add(@, velocity),
                                    !.acceleration = <<0, 0>>],
                          this, opts, cosine)

\* mutant: the factor falls from 1 to 0 as initSize grows
InitFactor_Decaying(initSize) == (F + MathCos((initSize * PI) \div F)) \div 2

\* Math.cos(this.initSize * TAU / 2) * -0.5 + 0.5, in 1/F
InitFactor(initSize) == (F - MathCos((initSize * PI) \div F)) \div 2

\* Particle.render: the radius handed to ctx.arc, in 1/F pixel
render(p) ==
    LET size == ((((p.size \div F) * p.oscSize) \div F) * InitFactor(p.initSize)) \div F
    IN [p EXCEPT !.radius = Max(0, size)]

\* Math.max(0, radius - force.magnitude) / radius for radius >= 0, in 1/F: with
\* radius 0 the quotient is 0 / 0, and a NaN magnitude makes the maximum NaN
DistanceScale(radius, force) ==
    IF radius = 0 \/ ~IsFinite(force) THEN NaNComponent
    ELSE IF Max(Abs(force[1]), Abs(force[2])) >= radius THEN 0
    ELSE (Max(0, radius - magnitude(force)) * F) \div radius

\* BreathingHalftone.update, one cursor on one particle: the force is scaled by
\* cos(distanceScale * PI) * -0.5 + 0.5 and by the cursor state's force
CursorForce(p, cursor, this, opts) ==
    LET forceScale == IF cursor.isDown THEN opts.activeForce ELSE opts.hoverForce
        diameter == IF cursor.isDown THEN opts.activeDiameter ELSE opts.hoverDiameter
        radius == (diameter * this.diagonal) \div (2 * F)
        force == subtract(p.position, cursor.position)
        distanceScale == DistanceScale(radius, force)
        eased == IF distanceScale = NaNComponent THEN NaNComponent
                 ELSE (F - MathCos((distanceScale * PI) \div F)) \div 2
    IN IF eased = 0 THEN <<0, 0>>
       ELSE scale(force, IF eased = NaNComponent THEN NaNComponent
                         ELSE (eased * forceScale) \div F)

\* BreathingHalftone.update, the cursor loop on one particle
RECURSIVE ApplyCursorForces(_, _, _, _, _)
ApplyCursorForces(p, ids, curs, this, opts) ==
    IF ids = {} THEN p
    ELSE LET id == CHOOSE i \in ids : TRUE
         IN ApplyCursorForces(applyForce(p, CursorForce(p, curs[id], this, opts)),
                              ids \ {id}, curs, this, opts)

-----------------------------------------------------------------------------
(* HalftoneController: constructor / create / loadImage / onImgLoad / animate / destroy *)

NoProbe == [done |-> FALSE]
NoParticle == [live |-> FALSE]
NoPointers == [active |-> {}, event |-> [type |-> "none"], count |-> 0]
NoGrid == [done |-> FALSE, looping |-> FALSE]

\* the Tally modal before its first opening: closed, the preloader not shown, no
\* timer pending, the clock at 0
NoTally ==
    [now |-> 0, modal |-> "closed", display |-> "none", opacity |-> 0, transition |-> "",
     fading |-> FALSE, cleanup |-> FALSE, shownAt |-> 0, timers |-> {}]

\* the listeners bindEvents registers
BoundListeners ==
    { <<"canvas", "mousedown">>, <<"canvas", "touchstart">>, <<"window", "mousemove">>,
      <<"window", "touchmove">>, <<"window", "touchend">>, <<"window", "resize">> }

NoCursors == [id \in {} |-> 0]

\* { pageX: -1e5, pageY: -1e5 }, in 1/F
FarAway == <<-100000 * F, -100000 * F>>

\* this.addCursor(identifier, event): a cursor for the identifier at the event's
\* position, not pressed
addCursor(identifier, page) ==
    cursors' = [id \in DOMAIN cursors \cup {identifier} |->
                   IF id = identifier THEN [position |-> page, isDown |-> FALSE]
                   ELSE cursors[id]]

\* loadImage: loadingImg.onload = () => this.onImgLoad(); no onerror handler is set
loadImage == loadingImg' = "pending"

\* mutant: the load callback runs whatever the outcome of the load
OnloadFires_AnyOutcome == loadingImg = "pending"

\* the load event of loadingImg fires only for an image that decodes
OnloadFires == loadingImg = "pending" /\ source.decodes

bindEvents == listeners' = listeners \cup BoundListeners

\* mutant: the luminance fallback dropped
CreateChannels_NoFallback == options.channels

\* this.channels = !isAdditive && !supports.darker ? ['lum'] : options.channels
CreateChannels ==
    IF ~options.isAdditive /\ ~supports.darker THEN <<"lum">> ELSE options.channels

\* mutant: no default cursor is added
create_NoDefaultCursor ==
    /\ isActive' = TRUE
    /\ canvas' = "attached"
    /\ imgStyle' = [imgStyle EXCEPT !.visibility = "hidden"]
    /\ channels' = CreateChannels
    /\ proxyCanvases' = { CreateChannels[k] : k \in 1..Len(CreateChannels) }
    /\ loadImage
    /\ UNCHANGED cursors
    /\ bindEvents

create ==
    /\ isActive' = TRUE
    /\ canvas' = "attached"
    /\ imgStyle' = [imgStyle EXCEPT !.visibility = "hidden"]
    /\ channels' = CreateChannels
    /\ proxyCanvases' = { CreateChannels[k] : k \in 1..Len(CreateChannels) }
    /\ loadImage
    /\ addCursor("mouse", FarAway)
    /\ bindEvents

\* mutant: the feature-detection short-circuit dropped
constructor_NoSupportCheck == create

\* constructor: if (!supports.canvas) return; this.create()
constructor ==
    IF ~supports.canvas
    THEN UNCHANGED <<isActive, canvas, imgStyle, channels, proxyCanvases, loadingImg,
                     cursors, listeners>>
    ELSE create

Construct ==
    /\ calls.construct = 0
    /\ calls' = [calls EXCEPT !.construct = 1]
    /\ constructor
    /\ thrown' = "none"
    /\ UNCHANGED <<supports, options, source, imgWidth, imgHeight, imgData, width, height,
                   diagonal, gridSize, particles, raf, frames, steps, probe, grid, particle, pointers, tally>>

\* animate: update(); render(); requestAnimationFrame(animate)
animate ==
    /\ frames' = Min(frames + 1, MaxFrames)
    /\ raf' = 1

\* the instance fields getImgData and resizeCanvas set from the host <img>
Decoded(src, opts) ==
    [imgWidth |-> src.naturalWidth, imgHeight |-> src.naturalHeight, imgData |-> src.data,
     width |-> src.offsetWidth, height |-> src.offsetHeight,
     diagonal |-> Diagonal(src.offsetWidth, src.offsetHeight),
     gridSize |-> GridSize(src.offsetWidth, src.offsetHeight, opts)]

\* mutant: the animation loop is not started
onImgLoad_NoAnimate ==
    /\ \E this \in {Decoded(source, options)} :
          /\ imgWidth' = this.imgWidth
          /\ imgHeight' = this.imgHeight
          /\ imgData' = this.imgData
          /\ width' = this.width
          /\ height' = this.height
          /\ diagonal' = this.diagonal
          /\ gridSize' = this.gridSize
          /\ particles' = initParticles(this, channels, 1, options)
    /\ imgStyle' = [imgStyle EXCEPT !.display = "none"]
    /\ UNCHANGED <<frames, raf>>
    /\ steps' = steps \o <<"getImgData", "resizeCanvas", "initParticles">>

\* onImgLoad: getImgData, resizeCanvas, hide the image, initParticles, animate
onImgLoad ==
    /\ \E this \in {Decoded(source, options)} :
          /\ imgWidth' = this.imgWidth
          /\ imgHeight' = this.imgHeight
          /\ imgData' = this.imgData
          /\ width' = this.width
          /\ height' = this.height
          /\ diagonal' = this.diagonal
          /\ gridSize' = this.gridSize
          /\ particles' = initParticles(this, channels, 1, options)
    /\ imgStyle' = [imgStyle EXCEPT !.display = "none"]
    /\ animate
    /\ steps' = steps \o <<"getImgData", "resizeCanvas", "initParticles", "animate">>

ImgLoad ==
    /\ OnloadFires
    /\ UNCHANGED <<supports, options, source, canvas, proxyCanvases, channels, cursors,
                   listeners, isActive, calls, probe, grid, particle, pointers, tally>>
    /\ loadingImg' = "fired"
    /\ onImgLoad
    /\ thrown' = "none"

\* the frame callback requestAnimationFrame scheduled
Frame ==
    /\ raf > 0
    /\ frames < MaxFrames
    /\ animate
    /\ thrown' = "none"
    /\ UNCHANGED <<supports, options, source, imgStyle, canvas, proxyCanvases, channels,
                   cursors, listeners, isActive, loadingImg, imgWidth, imgHeight, imgData,
                   width, height, diagonal, gridSize, particles, calls, steps, probe, grid, particle, pointers, tally>>

\* mutant: the image's display is left as onImgLoad set it
destroy_KeepsDisplay ==
    /\ isActive' = FALSE
    /\ IF canvas = "none"
       THEN /\ thrown' = "TypeError"
            /\ UNCHANGED <<listeners, imgStyle, canvas>>
       ELSE /\ listeners' = listeners \ BoundListeners
            /\ imgStyle' = [imgStyle EXCEPT !.visibility = ""]
            /\ IF canvas = "attached"
               THEN canvas' = "detached" /\ thrown' = "none"
               ELSE canvas' = canvas /\ thrown' = "TypeError"

\* destroy: isActive = false; unbindEvents(); restore the image; remove the canvas.
\* this.canvas is undefined before create(), and canvas.parentNode is null once the
\* canvas is removed: both raise a TypeError at the statement that reads them.
destroy ==
    /\ isActive' = FALSE
    /\ IF canvas = "none"
       THEN /\ thrown' = "TypeError"
            /\ UNCHANGED <<listeners, imgStyle, canvas>>
       ELSE /\ listeners' = listeners \ BoundListeners
            /\ imgStyle' = [visibility |-> "", display |-> ""]
            /\ IF canvas = "attached"
               THEN canvas' = "detached" /\ thrown' = "none"
               ELSE canvas' = canvas /\ thrown' = "TypeError"

Destroy ==
    /\ calls.construct = 1
    /\ calls.destroy < MaxDestroy
    /\ calls' = [calls EXCEPT !.destroy = @ + 1]
    /\ destroy
    /\ UNCHANGED <<supports, options, source, proxyCanvases, channels, cursors, loadingImg,
                   imgWidth, imgHeight, imgData, width, height, diagonal, gridSize, particles, raf,
                   frames, steps, probe, grid, particle, pointers, tally>>

-----------------------------------------------------------------------------
(* Event handling: handleEvent dispatches a DOM event to the method on<type>.   *)
(* onresize is the only handler under src/; the pointer handlers follow the     *)
(* Cursor lifecycle of section 3: created on the first event of an identifier,  *)
(* updated on move and down, removed on the pointer's end.  An event is         *)
(* { type, identifier, page }, page being the position in surface coordinates.  *)

onmousedown(event) ==
    cursors' = [cursors EXCEPT !["mouse"] = [position |-> event.page, isDown |-> TRUE]]

onmousemove(event) ==
    cursors' = [cursors EXCEPT !["mouse"].position = event.page]

ontouchstart(event) ==
    cursors' = [id \in DOMAIN cursors \cup {event.identifier} |->
                   IF id = event.identifier THEN [position |-> event.page, isDown |-> TRUE]
                   ELSE cursors[id]]

ontouchmove(event) ==
    cursors' = [id \in DOMAIN cursors \cup {event.identifier} |->
                   IF id = event.identifier
                   THEN [position |-> event.page,
                         isDown |-> IF id \in DOMAIN cursors THEN cursors[id].isDown ELSE FALSE]
                   ELSE cursors[id]]

ontouchend(event) ==
    cursors' = [id \in DOMAIN cursors \ {event.identifier} |-> cursors[id]]

\* mutant: the handler builds the grids again, for the box of the resize
onresize_Rebuilds ==
    /\ UNCHANGED <<width, height, diagonal, gridSize, proxyCanvases>>
    /\ particles' = initParticles(Decoded(source', options), channels, 1, options)

\* onresize: this.getCanvasPosition(); the surfaces, the fields resizeCanvas sets
\* and the particles are not touched
onresize == UNCHANGED <<width, height, diagonal, gridSize, proxyCanvases, particles>>

\* handleEvent: const method = 'on' + event.type; if (this[method]) this[method](event)
handleEvent(event) ==
    IF event.type = "resize" THEN onresize /\ UNCHANGED cursors
    ELSE /\ UNCHANGED <<width, height, diagonal, gridSize, proxyCanvases, particles>>
         /\ CASE event.type = "mousedown" -> onmousedown(event)
              [] event.type = "mousemove" -> onmousemove(event)
              [] event.type = "touchstart" -> ontouchstart(event)
              [] event.type = "touchmove" -> ontouchmove(event)
              [] event.type = "touchend" -> ontouchend(event)
              [] OTHER -> UNCHANGED cursors

\* the instance before the constructor has run
Fresh ==
    /\ imgStyle = [visibility |-> "", display |-> ""]
    /\ canvas = "none"
    /\ proxyCanvases = {}
    /\ channels = << >>
    /\ cursors = NoCursors
    /\ listeners = {}
    /\ isActive = FALSE
    /\ loadingImg = "none"
    /\ particles = << >>
    /\ raf = 0
    /\ frames = 0
    /\ thrown = "none"
    /\ calls = [construct |-> 0, destroy |-> 0]
    /\ steps = << >>
    /\ probe = NoProbe
    /\ grid = NoGrid
    /\ particle = NoParticle
    /\ pointers = NoPointers
    /\ tally = NoTally

Init ==
    /\ supports \in [canvas : BOOLEAN, darker : BOOLEAN]
    /\ options \in OptionsOf({F \div 2}, {0, Unit \div 2}, BOOLEAN, BOOLEAN, ChannelLists)
    /\ source \in Sources(ImagesOf({"checker"}, {1}, {1, 2}), Boxes, BOOLEAN)
    /\ imgWidth = 0
    /\ imgHeight = 0
    /\ imgData = << >>
    /\ width = 0
    /\ height = 0
    /\ diagonal = 0
    /\ gridSize = 0
    /\ Fresh

Next == Construct \/ ImgLoad \/ Frame \/ Destroy

Spec == Init /\ [][Next]_vars

\* the host delivers the load event of an image that decodes
FairSpec == Spec /\ WF_vars(ImgLoad)

-----------------------------------------------------------------------------
(* The sampler on its own: a decoded instance, probed at surface coordinates *)

\* the instance fields the sampler and the grid builder read
This ==
    [imgWidth |-> imgWidth, imgHeight |-> imgHeight, imgData |-> imgData,
     width |-> width, height |-> height, diagonal |-> diagonal, gridSize |-> gridSize]

\* the fields as getImgData and resizeCanvas leave them
DecodedFields ==
    /\ imgWidth = Decoded(source, options).imgWidth
    /\ imgHeight = Decoded(source, options).imgHeight
    /\ imgData = Decoded(source, options).imgData
    /\ width = Decoded(source, options).width
    /\ height = Decoded(source, options).height
    /\ diagonal = Decoded(source, options).diagonal
    /\ gridSize = Decoded(source, options).gridSize

\* surface coordinates in half pixels, from one pixel before the surface to past
\* the point that maps to the image's last row
ProbeCoords == { k * (F \div 2) : k \in (-2)..(2 * MaxImgDim * MaxBox + 2) }

InitSample ==
    /\ supports = [canvas |-> TRUE, darker |-> TRUE]
    /\ options \in OptionsOf({F \div 2}, {0}, {FALSE}, {FALSE}, {<<"lum">>})
    /\ source \in Sources(Images, {b \in Boxes : b.offsetHeight = b.offsetWidth}, {TRUE})
    /\ DecodedFields
    /\ Fresh

\* getPixelChannelValue at (x, y), in both polarities
Probe ==
    /\ ~probe.done
    /\ \E x \in ProbeCoords, y \in ProbeCoords, ch \in Channels :
          probe' = [done |-> TRUE, x |-> x, y |-> y, channel |-> ch,
                    pixel |-> MappedPixel(This, x, y),
                    additive |-> getPixelChannelValue(This, x, y, ch, TRUE),
                    subtractive |-> getPixelChannelValue(This, x, y, ch, FALSE)]
    /\ UNCHANGED <<supports, options, source, imgStyle, canvas, proxyCanvases, channels,
                   cursors, listeners, isActive, loadingImg, imgWidth, imgHeight, imgData,
                   width, height, diagonal, gridSize, particles, raf, frames, thrown, calls, steps, grid, particle, pointers, tally>>

NextSample == Probe

SampleSpec == InitSample /\ [][NextSample]_vars

-----------------------------------------------------------------------------
(* The grid builder on its own: one channel's grid of a decoded instance *)

InitGrid ==
    /\ supports = [canvas |-> TRUE, darker |-> TRUE]
    /\ options \in OptionsOf(DotSizes, Thresholds, BOOLEAN, BOOLEAN, {<<"lum">>})
    /\ source \in Sources(ImagesOf({"checker"}, Colours, Colours), Boxes, {TRUE})
    /\ DecodedFields
    /\ Fresh

WithThreshold(opts, t) == [opts EXCEPT !.dotSizeThreshold = t]

\* the grid of channel ch under this.options, the number of candidates of every
\* channel's angle, and the particle counts with dotSizeThreshold 0.0 and 1.0,
\* all other options equal; divisor is the gridSize the loop bound was divided
\* by.  With the bound Infinity the loop conditions `row < rows`, `col < cols`,
\* `level < maxLevel` hold for every value of the counter: the builder is in its
\* loop for good and returns no grid.
BuildGrid ==
    /\ ~grid.done
    /\ ~grid.looping
    /\ \E ch \in Channels :
          grid' = IF GridLoopBound(This, options) = Infinity
                  THEN [done |-> FALSE, looping |-> TRUE, channel |-> ch,
                        divisor |-> This.gridSize]
                  ELSE
                  [done |-> TRUE, looping |-> FALSE, channel |-> ch,
                   divisor |-> This.gridSize,
                   candidates |-> GridCandidates(This, ch, options),
                   counts |-> [c \in Channels |-> Len(GridCandidates(This, c, options))],
                   particles |-> GridParticles(This, ch, options),
                   count0 |-> Len(GridParticles(This, ch, WithThreshold(options, 0))),
                   count1 |-> Len(GridParticles(This, ch, WithThreshold(options, Unit)))]
    /\ UNCHANGED <<supports, options, source, imgStyle, canvas, proxyCanvases, channels,
                   cursors, listeners, isActive, loadingImg, imgWidth, imgHeight, imgData,
                   width, height, diagonal, gridSize, particles, raf, frames, thrown, calls, steps, probe, particle, pointers, tally>>

NextGrid == BuildGrid

GridSpec == InitGrid /\ [][NextGrid]_vars

-----------------------------------------------------------------------------
(* The grid builder at the edges of its inputs: a host element that takes no    *)
(* room, and dotSize values at and below zero                                   *)

\* the box of a host element that is not laid out
ZeroBox == [offsetWidth |-> 0, offsetHeight |-> 0]

\* dotSize values: -1/2, 0, 1/2
EdgeDotSizes == {-(F \div 2), 0, F \div 2}

InitEdgeGrid ==
    /\ supports = [canvas |-> TRUE, darker |-> TRUE]
    /\ options \in OptionsOf(EdgeDotSizes, {0}, BOOLEAN, BOOLEAN, {<<"lum">>})
    /\ source \in Sources(ImagesOf({"checker"}, {1}, {1, 2}), Boxes \cup {ZeroBox}, {TRUE})
    /\ DecodedFields
    /\ Fresh

EdgeGridSpec == InitEdgeGrid /\ [][NextGrid]_vars

-----------------------------------------------------------------------------
(* One particle of a Running instance, followed from its construction through  *)
(* the frames: every particle of the built grids can be the one followed.      *)

\* the largest square images painted in one colour
UniformImages ==
    { i \in UNION { ImagesOf({"rows"}, {c}, {c}) : c \in Colours } :
        i.naturalWidth = MaxImgDim /\ i.naturalHeight = MaxImgDim }

\* the widest boxes, square or flatter
WideBoxes == { b \in Boxes : b.offsetWidth = MaxBox /\ b.offsetHeight >= MaxBox - 1 }

\* dotSize values of the particle specification: 1/2, 1/4, 1/8
ParticleDotSizes == {F \div 2, F \div 4, F \div 8}

InitParticle ==
    /\ supports \in [canvas : {TRUE}, darker : BOOLEAN]
    /\ options \in OptionsOf(ParticleDotSizes, {0}, BOOLEAN, {FALSE}, {<<"red">>})
    /\ source \in Sources(UniformImages, WideBoxes, {TRUE})
    \* dotSize 1/8 is taken in the end-to-end scenario only: subtractive, the
    \* image shown at its natural size
    /\ (options.dotSize = F \div 8)
          => (~options.isAdditive /\ source.offsetWidth = source.naturalWidth
                                  /\ source.offsetHeight = source.naturalHeight)
    /\ DecodedFields
    /\ imgStyle = [visibility |-> "hidden", display |-> "none"]
    /\ canvas = "attached"
    /\ channels = CreateChannels
    /\ proxyCanvases = { CreateChannels[k] : k \in 1..Len(CreateChannels) }
    /\ cursors = [id \in {"mouse"} |-> [position |-> FarAway, isDown |-> FALSE]]
    /\ listeners = BoundListeners
    /\ isActive = TRUE
    /\ loadingImg = "fired"
    /\ particles = initParticles(Decoded(source, options), CreateChannels, 1, options)
    /\ raf = 1
    /\ frames = 1
    /\ thrown = "none"
    /\ calls = [construct |-> 1, destroy |-> 0]
    /\ steps = <<"getImgData", "resizeCanvas", "initParticles", "animate">>
    /\ probe = NoProbe
    /\ grid = NoGrid
    /\ particle = NoParticle
    /\ pointers = NoPointers
    /\ tally = NoTally

\* initParticle's `new Particle(...)` for the particle followed
NewParticle ==
    /\ ~particle.live
    /\ \E k \in 1..Len(particles), rand \in {0, F - 1} :
          particle' = Particle(particles[k], options, rand)
    /\ UNCHANGED <<supports, options, source, imgStyle, canvas, proxyCanvases, channels,
                   cursors, listeners, isActive, loadingImg, imgWidth, imgHeight, imgData,
                   width, height, diagonal, gridSize, particles, raf, frames, thrown, calls,
                   steps, probe, grid, pointers, tally>>

\* one animate() as the particle followed sees it: the cursor forces and
\* particle.update() of update(), then particle.render() of render()
ParticleFrame ==
    /\ particle.live
    /\ particle.updates < MaxUpdates
    /\ \E shows \in (IF particle.waited < MaxWaited THEN BOOLEAN ELSE {TRUE}),
          cosine \in {-F, F} :
          \E p \in {ApplyCursorForces(particle, DOMAIN cursors, cursors, This, options)} :
             particle' = render(update(p, This, options, shows, cosine))
    /\ UNCHANGED <<supports, options, source, imgStyle, canvas, proxyCanvases, channels,
                   cursors, listeners, isActive, loadingImg, imgWidth, imgHeight, imgData,
                   width, height, diagonal, gridSize, particles, raf, frames, thrown, calls,
                   steps, probe, grid, pointers, tally>>

NextParticle == NewParticle \/ ParticleFrame

ParticleSpec == InitParticle /\ [][NextParticle]_vars

\* an invisible particle is shown eventually and the frames keep coming
FairParticleSpec == ParticleSpec /\ WF_vars(ParticleFrame)

-----------------------------------------------------------------------------
(* One particle under a cursor that has come onto the surface: the pointer      *)
(* events before the particle is built leave the mouse cursor anywhere, pressed *)
(* or not, and the option set is the caller's.                                  *)

\* the largest images with a black top row over white rows
MotionImages ==
    { i \in ImagesOf({"rows"}, {1}, {2}) :
        i.naturalWidth = MaxImgDim /\ i.naturalHeight = MaxImgDim }

\* initVelocity values: negative, zero, and a ramp of a few frames
InitVelocities == {-20, 0, 400}

\* hoverDiameter and activeDiameter values: none, and the defaults
HoverDiameters == {0, defaults.hoverDiameter}
ActiveDiameters == {0, defaults.activeDiameter}

\* the option sets of the motion specification
MotionOptions ==
    { [o EXCEPT !.initVelocity = v, !.hoverDiameter = h, !.activeDiameter = a] :
        o \in OptionsOf({F \div 4}, {0}, {FALSE}, {FALSE}, {<<"red">>}),
        v \in InitVelocities, h \in HoverDiameters, a \in ActiveDiameters }

\* positions the mouse cursor was left at, in surface coordinates
MotionPages == {FarAway, <<F, 0>>, <<F, F>>}

InitMotion ==
    /\ supports = [canvas |-> TRUE, darker |-> TRUE]
    /\ options \in MotionOptions
    /\ source \in Sources(MotionImages, {b \in Boxes : b.offsetWidth = MaxBox
                                                      /\ b.offsetHeight = MaxBox}, {TRUE})
    /\ DecodedFields
    /\ imgStyle = [visibility |-> "hidden", display |-> "none"]
    /\ canvas = "attached"
    /\ channels = CreateChannels
    /\ proxyCanvases = { CreateChannels[k] : k \in 1..Len(CreateChannels) }
    /\ cursors \in { [id \in {"mouse"} |-> [position |-> page, isDown |-> down]] :
                       page \in MotionPages, down \in BOOLEAN }
    /\ listeners = BoundListeners
    /\ isActive = TRUE
    /\ loadingImg = "fired"
    /\ particles = initParticles(Decoded(source, options), CreateChannels, 1, options)
    /\ raf = 1
    /\ frames = 1
    /\ thrown = "none"
    /\ calls = [construct |-> 1, destroy |-> 0]
    /\ steps = <<"getImgData", "resizeCanvas", "initParticles", "animate">>
    /\ probe = NoProbe
    /\ grid = NoGrid
    /\ particle = NoParticle
    /\ pointers = NoPointers
    /\ tally = NoTally

NextMotion == NewParticle \/ ParticleFrame

MotionSpec == InitMotion /\ [][NextMotion]_vars

-----------------------------------------------------------------------------
(* The instance under the host's events: pointer events and resizes arrive      *)
(* through the listeners bindEvents registered, while the lifecycle goes on.    *)

\* Touch.identifier values
TouchIds == {"touch0", "touch1"}

\* event positions, in surface coordinates
Pages == {<<0, 0>>, <<F, F>>}

InitEvents ==
    /\ supports = [canvas |-> TRUE, darker |-> FALSE]
    /\ options \in OptionsOf({F \div 2}, {0}, {FALSE}, {FALSE}, {<<"lum">>})
    /\ source \in Sources({ i \in ImagesOf({"checker"}, {1}, {2}) :
                              i.naturalWidth = 1 /\ i.naturalHeight = 1 }, Boxes, {TRUE})
    /\ imgWidth = 0
    /\ imgHeight = 0
    /\ imgData = << >>
    /\ width = 0
    /\ height = 0
    /\ diagonal = 0
    /\ gridSize = 0
    /\ Fresh

\* the listener of (target, event.type) is registered and handles the event;
\* active is the set of touches in contact after it
Dispatch(target, event, active) ==
    /\ <<target, event.type>> \in listeners
    /\ handleEvent(event)
    /\ pointers' = [active |-> active, event |-> event,
                    count |-> Min(pointers.count + 1, MaxEvents)]
    /\ thrown' = "none"
    /\ UNCHANGED <<supports, options, imgStyle, canvas, channels, listeners, isActive,
                   loadingImg, imgWidth, imgHeight, imgData, raf, frames, calls,
                   steps, probe, grid, particle, tally>>

MouseDown ==
    \E page \in Pages :
        /\ Dispatch("canvas", [type |-> "mousedown", identifier |-> "mouse", page |-> page],
                    pointers.active)
        /\ UNCHANGED source

MouseMove ==
    \E page \in Pages :
        /\ Dispatch("window", [type |-> "mousemove", identifier |-> "mouse", page |-> page],
                    pointers.active)
        /\ UNCHANGED source

TouchStart ==
    \E id \in TouchIds \ pointers.active, page \in Pages :
        /\ Dispatch("canvas", [type |-> "touchstart", identifier |-> id, page |-> page],
                    pointers.active \cup {id})
        /\ UNCHANGED source

TouchMove ==
    \E id \in pointers.active, page \in Pages :
        /\ Dispatch("window", [type |-> "touchmove", identifier |-> id, page |-> page],
                    pointers.active)
        /\ UNCHANGED source

TouchEnd ==
    \E id \in pointers.active :
        /\ Dispatch("window", [type |-> "touchend", identifier |-> id, page |-> <<0, 0>>],
                    pointers.active \ {id})
        /\ UNCHANGED source

\* the window is resized: the layout gives the host element a new box, then the
\* resize event is dispatched
Resize ==
    \E box \in Boxes :
        /\ source' = [source EXCEPT !.offsetWidth = box.offsetWidth,
                                    !.offsetHeight = box.offsetHeight]
        /\ Dispatch("window", [type |-> "resize", identifier |-> "window", page |-> <<0, 0>>],
                    pointers.active)

NextEvents ==
    \/ Construct \/ ImgLoad \/ Frame \/ Destroy
    \/ MouseDown \/ MouseMove \/ TouchStart \/ TouchMove \/ TouchEnd \/ Resize

EventSpec == InitEvents /\ [][NextEvents]_vars

-----------------------------------------------------------------------------
(* One particle of a Running instance followed while pointer and resize events  *)
(* arrive between its frames                                                    *)

\* a Running instance on the black image, in the square box, subtractive
InitOrigin ==
    /\ supports = [canvas |-> TRUE, darker |-> TRUE]
    /\ options \in OptionsOf({F \div 4}, {0}, {FALSE}, {FALSE}, {<<"red">>})
    /\ source \in Sources({ i \in UniformImages : i.data[1] = 0 },
                          { b \in WideBoxes : b.offsetHeight = MaxBox }, {TRUE})
    /\ DecodedFields
    /\ imgStyle = [visibility |-> "hidden", display |-> "none"]
    /\ canvas = "attached"
    /\ channels = CreateChannels
    /\ proxyCanvases = { CreateChannels[k] : k \in 1..Len(CreateChannels) }
    /\ cursors = [id \in {"mouse"} |-> [position |-> FarAway, isDown |-> FALSE]]
    /\ listeners = BoundListeners
    /\ isActive = TRUE
    /\ loadingImg = "fired"
    /\ particles = initParticles(Decoded(source, options), CreateChannels, 1, options)
    /\ raf = 1
    /\ frames = 1
    /\ thrown = "none"
    /\ calls = [construct |-> 1, destroy |-> 0]
    /\ steps = <<"getImgData", "resizeCanvas", "initParticles", "animate">>
    /\ probe = NoProbe
    /\ grid = NoGrid
    /\ particle = NoParticle
    /\ pointers = NoPointers
    /\ tally = NoTally

\* a pointer or resize event is dispatched between two frames
MotionEvent ==
    /\ pointers.count < MaxEvents
    /\ (MouseDown \/ MouseMove \/ Resize)

NextOrigin == NewParticle \/ ParticleFrame \/ MotionEvent

OriginSpec == InitOrigin /\ [][NextOrigin]_vars

-----------------------------------------------------------------------------
(* The Tally modal (client/modules/tally.ts): one modal and its preloader.  The *)
(* clock counts ticks; a setTimeout callback runs at the tick it is due, before *)
(* the clock moves on.  A timer is { fn, due, shownAt }: fn "hidePreloader" is  *)
(* the callback openModal sets, fn "fade" the one hidePreloader sets.           *)

MaxClock == 8       \* ticks the clock counts

\* tally(minPreloaderMs), in ticks
minPreloaderMs == 3

HalftoneVars ==
    <<supports, options, source, imgStyle, canvas, proxyCanvases, channels,
      cursors, listeners, isActive, loadingImg, imgWidth, imgHeight, imgData,
      width, height, diagonal, gridSize, particles, raf, frames, thrown, calls, steps,
      probe, grid, particle, pointers>>

\* showPreloader: display flex, opacity 1, no transition; returns performance.now()
showPreloader(t) ==
    [t EXCEPT !.display = "flex", !.opacity = 1, !.transition = "", !.fading = FALSE,
              !.shownAt = t.now]

\* openModal: show the modal and the preloader, then
\* setTimeout(() => hidePreloader(preloader, shownAt), minPreloaderMs)
openModal(t) ==
    [showPreloader(t) EXCEPT
        !.modal = "open",
        !.timers = @ \cup {[fn |-> "hidePreloader", due |-> t.now + minPreloaderMs,
                            shownAt |-> t.now]}]

\* closeModal: the preloader and the modal are hidden at once; no timer is cleared
closeModal(t) ==
    [t EXCEPT !.display = "none", !.opacity = 0, !.fading = FALSE, !.modal = "closed"]

\* hidePreloader(preloader, shownAt): setTimeout(fade, remaining)
hidePreloader(t, shownAt) ==
    LET elapsed == t.now - shownAt
        remaining == Max(0, minPreloaderMs - elapsed)
    IN [t EXCEPT !.timers = @ \cup {[fn |-> "fade", due |-> t.now + remaining,
                                      shownAt |-> shownAt]}]

\* the callback hidePreloader sets: opacity 0 under a transition, and cleanup
\* registered for transitionend; the transition runs if the preloader was showing
fade(t) ==
    [t EXCEPT !.transition = "opacity 0.4s ease", !.opacity = 0, !.cleanup = TRUE,
              !.fading = (t.display = "flex" /\ t.opacity = 1)]

\* cleanup, on transitionend: display none
cleanup(t) ==
    [t EXCEPT !.display = "none", !.transition = "", !.fading = FALSE, !.cleanup = FALSE]

InitTally ==
    /\ supports = [canvas |-> FALSE, darker |-> FALSE]
    /\ options \in OptionsOf({F \div 2}, {0}, {FALSE}, {FALSE}, {<<"lum">>})
    /\ source \in Sources(ImagesOf({"rows"}, {1}, {1}), Boxes, {FALSE})
    /\ imgWidth = 0
    /\ imgHeight = 0
    /\ imgData = << >>
    /\ width = 0
    /\ height = 0
    /\ diagonal = 0
    /\ gridSize = 0
    /\ Fresh

\* a trigger is clicked while the modal is closed
OpenModal ==
    /\ tally.modal = "closed"
    /\ tally' = openModal(tally)
    /\ UNCHANGED HalftoneVars

\* the close button is clicked, or Escape is pressed
CloseModal ==
    /\ tally.modal = "open"
    /\ tally' = closeModal(tally)
    /\ UNCHANGED HalftoneVars

\* a timer that is due runs its callback
Timeout ==
    /\ \E timer \in tally.timers :
          /\ timer.due <= tally.now
          /\ \E t \in {[tally EXCEPT !.timers = @ \ {timer}]} :
                tally' = IF timer.fn = "hidePreloader" THEN hidePreloader(t, timer.shownAt)
                         ELSE fade(t)
    /\ UNCHANGED HalftoneVars

\* the opacity transition of the preloader ends
TransitionEnd ==
    /\ tally.fading
    /\ tally.cleanup
    /\ tally' = cleanup(tally)
    /\ UNCHANGED HalftoneVars

\* the clock moves on once every due timer has run
Tick ==
    /\ tally.now < MaxClock
    /\ \A timer \in tally.timers : timer.due > tally.now
    /\ tally' = [tally EXCEPT !.now = @ + 1]
    /\ UNCHANGED HalftoneVars

NextTally == OpenModal \/ CloseModal \/ Timeout \/ TransitionEnd \/ Tick

TallySpec == InitTally /\ [][NextTally]_vars

-----------------------------------------------------------------------------
(* Lifecycle states of section 4.6, read off the instance *)

ControllerState ==
    IF canvas = "none" THEN "Uninitialized"
    ELSE IF calls.destroy > 0 THEN "Destroyed"
    ELSE IF loadingImg = "pending" THEN "Loading"
    ELSE "Running"

\* what the host can observe of an instance
HostVisible == <<imgStyle, canvas, listeners>>

-----------------------------------------------------------------------------
(* Claims *)

\* C1: a second destroy() is a no-op: it never throws and leaves the host-visible
\* state (image visibility/display, canvas attachment, listeners) as it was.
C1_SecondDestroyIsNoOp ==
    [][(calls.destroy >= 1 /\ calls'.destroy = calls.destroy + 1)
          => (thrown' = "none" /\ HostVisible' = HostVisible)]_vars

\* C2: once destroy() has run on a Running instance, no later frame callback
\* updates or renders (the frame count stops) and none reschedules itself.
C2_NoFrameAfterDestroy ==
    [][(loadingImg = "fired" /\ calls.destroy > 0)
          => (frames' = frames /\ (raf' # raf => raf' = 0))]_vars

\* C3: without 2D-surface support the constructor returns without throwing and
\* without any host-visible effect, and the controller stays Uninitialized: no
\* canvas, image not hidden, no listener, no image load, no frame, ever.
C3_UnsupportedHostNoEffect ==
    (calls.construct = 1 /\ ~supports.canvas)
        => /\ ControllerState = "Uninitialized"
           /\ canvas = "none"
           /\ proxyCanvases = {}
           /\ imgStyle = [visibility |-> "", display |-> ""]
           /\ listeners = {}
           /\ loadingImg = "none"
           /\ raf = 0
           /\ frames = 0
           /\ particles = << >>
           /\ (calls.destroy = 0 => thrown = "none")

C3_Witness == calls.construct = 1 /\ ~supports.canvas /\ calls.destroy = 0

C5_NoDecodeStaysLoading ==
    (~source.decodes)
        => /\ particles = << >>
           /\ raf = 0
           /\ frames = 0
           /\ steps = << >>
           /\ ControllerState # "Running"
           /\ (calls.construct = 1 /\ supports.canvas /\ calls.destroy = 0)
                 => (ControllerState = "Loading" /\ thrown = "none")

C5_Witness == ~source.decodes /\ ControllerState = "Loading"

\* the mapped pixel lies inside the image rectangle [0,width) x [0,height)
InRectangle(pixel) ==
    /\ 0 <= pixel[1] /\ pixel[1] < imgWidth
    /\ 0 <= pixel[2] /\ pixel[2] < imgHeight

\* C6: a coordinate whose mapped pixel lies outside [0,width) x [0,height),
\* x = width and y = height included, samples 0.0 in every channel and polarity.
C6_OutsideSamplesZero ==
    (probe.done /\ ~InRectangle(probe.pixel))
        => (probe.additive = 0 /\ probe.subtractive = 0)

\* C7: at an in-bounds coordinate the additive and the subtractive sample of a
\* channel sum to exactly 1.0.
C7_PolaritySymmetry ==
    (probe.done /\ InRectangle(probe.pixel))
        => probe.additive + probe.subtractive = Unit

C7_Witness ==
    /\ probe.done /\ InRectangle(probe.pixel)
    /\ probe.additive \notin {0, Unit}
    /\ probe.channel = "lum"

\* C8: the sampler is total: every coordinate, channel and polarity gives a
\* number in [0,1], never NaN, also when the pixel index is past the buffer.
C8_SampleInUnitInterval ==
    probe.done => (probe.additive \in 0..Unit /\ probe.subtractive \in 0..Unit)

C8_Witness ==
    /\ probe.done
    /\ ~OutOfImage(This, probe.pixel[1], probe.pixel[2])
    /\ (probe.pixel[1] + probe.pixel[2] * imgWidth) * 4 >= Len(imgData)

\* C9: every particle of a built grid (cartesian or radial) sits on a candidate
\* origin whose sampled intensity is at least dotSizeThreshold.
C9_ThresholdPruning ==
    grid.done =>
        \A k \in 1..Len(grid.particles) :
            LET p == grid.particles[k]
            IN /\ getPixelChannelValue(This, p.origin[1], p.origin[2], grid.channel,
                                       options.isAdditive) >= options.dotSizeThreshold
               /\ \E c \in 1..Len(grid.candidates) : grid.candidates[c] = p.origin

C9_Witness ==
    /\ grid.done
    /\ options.isRadial
    /\ Len(grid.particles) > 0
    /\ Len(grid.particles) < Len(grid.candidates)

\* two pixels of the source image differ
NonUniformImage ==
    \E i, j \in 0..(imgWidth * imgHeight - 1) :
        \E c \in 1..3 : imgData[4 * i + c] # imgData[4 * j + c]

\* no candidate origin maps to column imgWidth or row imgHeight, the one place
\* where the bounds test of the sampler and the image rectangle disagree
EdgeFree ==
    \A c \in 1..Len(grid.candidates) :
        LET pixel == MappedPixel(This, grid.candidates[c][1], grid.candidates[c][2])
        IN InRectangle(pixel) \/ OutOfImage(This, pixel[1], pixel[2])

\* C10 as stated: on a non-uniform image, threshold 1.0 gives strictly fewer
\* particles than threshold 0.0, whatever the surface size and dot size
\* (looked at on the grids that stay clear of the image's far edge).
C10_StrictlyFewer ==
    (grid.done /\ NonUniformImage /\ EdgeFree) => grid.count1 < grid.count0

\* C10 amended: threshold 1.0 never gives more particles than threshold 0.0, and
\* gives strictly fewer exactly when some candidate origin samples below 1.0.
C10_FewerIffBelowOne ==
    grid.done =>
        /\ grid.count1 <= grid.count0
        /\ (grid.count1 < grid.count0) <=>
              \E c \in 1..Len(grid.candidates) :
                  getPixelChannelValue(This, grid.candidates[c][1], grid.candidates[c][2],
                                       grid.channel, options.isAdditive) < Unit

C10_Witness ==
    /\ grid.done /\ NonUniformImage
    /\ 0 < grid.count1 /\ grid.count1 < grid.count0

\* the least k with k * step >= length
CeilQuotient(length, step) == CHOOSE k \in 0..(length + 1) : (k - 1) * step < length /\ length <= k * step

RingStart(k) == IF k = 0 THEN 1 ELSE 2 + 3 * k * (k - 1)

\* candidate i lies on the circle of radius k * gridSize around the centre
\* candidate, within the rounding of the coordinates
OnRing(i, k) ==
    LET dx == grid.candidates[i][1] - grid.candidates[1][1]
        dy == grid.candidates[i][2] - grid.candidates[1][2]
        r == k * gridSize
        tol == r \div 100 + 3
    IN /\ dx * dx + dy * dy <= (r + tol) * (r + tol)
       /\ dx * dx + dy * dy >= (IF r > tol THEN (r - tol) * (r - tol) ELSE 0)

\* C12: in radial mode ring k holds exactly max(6k, 1) candidates, at radius
\* k * gridSize, and with maxLevel = L the candidates number 1 + 3L(L-1).
C12_RadialCount ==
    (grid.done /\ options.isRadial)
        => LET L == CeilQuotient(Max(width, height) * ROOT_2 + gridSize, gridSize)
           IN /\ Len(grid.candidates) = 1 + 3 * L * (L - 1)
              /\ \A c \in Channels : grid.counts[c] = 1 + 3 * L * (L - 1)
              /\ \A k \in 0..(L - 1) :
                    \A i \in RingStart(k)..(RingStart(k) + Max(6 * k, 1) - 1) : OnRing(i, k)

C12_Witness ==
    /\ grid.done /\ options.isRadial
    /\ Len(grid.candidates) >= 1 + 3 * 4 * 3

\* the step is a calculateSize run of the followed particle towards a target > 0
\* (the default cursor is far away: the particle rests at its origin and the
\* target is the same in every run)
Settles == particle.live /\ particle'.updates = particle.updates + 1 /\ particle'.targetSize > 0

\* C13 as stated: from size = 0, sizeVelocity = 0 and a constant target > 0, size
\* strictly increases in every iteration and never exceeds the target.
C13_MonotoneNoOvershoot ==
    [][Settles => (particle'.size > particle.size /\ particle'.size <= particle'.targetSize)]_vars

\* C13 amended: size strictly increases in iterations 1..13, stays below the
\* target in iterations 1..9, exceeds it from iteration 10 to the peak of
\* iteration 13, and never exceeds 1.09 x target.
C13_RisesToOvershoot ==
    [][Settles =>
          /\ (particle'.updates <= 13 => particle'.size > particle.size)
          /\ (particle'.updates <= 9 => particle'.size < particle'.targetSize)
          /\ (particle'.updates \in 10..13 => particle'.size > particle'.targetSize)
          /\ (particle'.updates = 14 => particle'.size < particle.size)
          /\ particle'.size * 100 <= particle'.targetSize * 109]_vars

C13_Witness ==
    /\ particle.live /\ particle.updates = 13
    /\ particle.targetSize > 0 /\ particle.size > particle.targetSize

\* size is within 1% of the target
WithinOnePercent == Abs(particle.size - particle.targetSize) * 100 <= particle.targetSize

\* C14: from size = 0, sizeVelocity = 0 and a constant target > 0, size is within
\* 1% of the target from iteration 22 on, whatever the target (and not yet at
\* iteration 21), and never exceeds 2 x target.
C14_SettlesWithinOnePercent ==
    (particle.live /\ particle.updates >= 1 /\ particle.targetSize > 0)
        => /\ (particle.updates >= 22 => WithinOnePercent)
           /\ (particle.updates = 21 => ~WithinOnePercent)
           /\ particle.size <= 2 * particle.targetSize

C14_Witness ==
    /\ particle.live /\ particle.updates >= 30
    /\ particle.targetSize > 0 /\ particle.size # particle.targetSize

\* every pixel of the source image has palette colour c
SourceColour(c) ==
    \A i \in 1..Len(imgData) : i % 4 = 0 \/ imgData[i] = Palette[c][((i - 1) % 4) + 1]

\* the end-to-end scenario: subtractive, threshold 0.0, cartesian, a source image
\* of colour c, a particle of the grid being followed
Scenario(c) ==
    /\ particle.live /\ SourceColour(c)
    /\ ~options.isAdditive /\ options.dotSizeThreshold = 0 /\ ~options.isRadial

\* size is within 1% of naturalSize
AtNaturalSize == Abs(particle.size - particle.naturalSize * F) * 100 <= particle.naturalSize * F

\* the mapped pixel lies beyond the image: left of or above it, or past column
\* imgWidth or row imgHeight
BeyondImage(pixel) ==
    pixel[1] < 0 \/ pixel[1] > imgWidth \/ pixel[2] < 0 \/ pixel[2] > imgHeight

C16_WhiteImageNoDots ==
    (Scenario(2) /\ particle.updates >= 1)
        => (particle.targetSize = 0 /\ particle.size = 0 /\ particle.radius = 0)

\* the elements of a sequence
Range(seq) == { seq[k] : k \in 1..Len(seq) }

\* the particles of channel ch, in creation order
ChannelParticles(ch) ==
    LET kept == SelectSeq(particles, LAMBDA q : q.channel = ch)
    IN [k \in 1..Len(kept) |-> kept[k]]

\* the controller owns one off-screen surface for each channel of list, and
\* once Running one grid for each of them, and none for any other channel
OwnsOnePerChannel(list) ==
    /\ channels = list
    /\ proxyCanvases = Range(list)
    /\ (loadingImg = "fired")
          => /\ \A k \in 1..Len(particles) : particles[k].channel \in Range(list)
             /\ \A ch \in Range(list) : ChannelParticles(ch) = GridParticles(This, ch, options)

\* C19 as stated: additive or subtractive, one off-screen surface and one grid
\* for each channel of options.channels and for no other channel.
C19_OnePerListedChannel ==
    (canvas # "none") => OwnsOnePerChannel(options.channels)

\* C19 amended: one surface and one grid for each channel of options.channels in
\* additive mode and in subtractive mode with the darker blend supported; in
\* subtractive mode without it, one surface and one grid, for luminance only.
C19_OnePerEffectiveChannel ==
    (canvas # "none")
        => IF options.isAdditive \/ supports.darker
           THEN OwnsOnePerChannel(options.channels)
           ELSE OwnsOnePerChannel(<<"lum">>)

C19_Witness ==
    /\ loadingImg = "fired" /\ ~options.isAdditive /\ ~supports.darker
    /\ options.channels = <<"red", "green", "blue">>
    /\ Len(particles) > 0

\* the step is the first destroy() of a Running instance
DestroysRunning ==
    /\ ControllerState = "Running"
    /\ calls'.destroy = calls.destroy + 1

\* C20: destroy() on a Running instance removes all six listeners the instance
\* registered, resets the image's visibility and display, and detaches the
\* canvas, without throwing.
C20_DestroyReleasesHost ==
    [][DestroysRunning
          => /\ listeners = BoundListeners
             /\ listeners' = {}
             /\ imgStyle' = [visibility |-> "", display |-> ""]
             /\ canvas = "attached" /\ canvas' = "detached"
             /\ thrown' = "none"]_vars

C20_Witness ==
    /\ loadingImg = "fired" /\ calls.destroy = 1
    /\ canvas = "detached" /\ listeners = {}
    /\ imgStyle = [visibility |-> "", display |-> ""]

\* the cursor of id is created, removed or changed by the step
CursorChanged(id) ==
    \/ (id \in DOMAIN cursors) # (id \in DOMAIN cursors')
    \/ (id \in DOMAIN cursors /\ id \in DOMAIN cursors' /\ cursors'[id] # cursors[id])

\* the step dispatches a DOM event (it is no step of the lifecycle)
IsEventStep == UNCHANGED <<calls, frames, loadingImg>>

\* every cursor has a position of two numbers
CursorsDefined ==
    \A id \in DOMAIN cursors :
        /\ Len(cursors[id].position) = 2
        /\ cursors[id].position[1] \in Int /\ cursors[id].position[2] \in Int
        /\ cursors[id].isDown \in BOOLEAN

C18_SurfacesFollowResize ==
    (ControllerState = "Running" /\ pointers.event.type = "resize")
        => (width = source.offsetWidth /\ height = source.offsetHeight)

-----------------------------------------------------------------------------
\* size * oscSize of render before the init factor is applied, clamped, in 1/F pixel
SteadyRadius == Max(0, ((particle.size \div F) * particle.oscSize) \div F)

\* C21 (as stated): the init factor of the rendered radius is at its maximum at
\* initSize 0 and has decayed to 0 at initSize 1, so a particle at initSize 0 is
\* rendered with its whole size * osc and a particle at initSize 1 with radius 0.
C21_DecaysToZero ==
    particle.live =>
        /\ (particle.initSize = 0 => particle.radius = SteadyRadius)
        /\ (particle.initSize = F => particle.radius = 0)

\* C21 (amended): the init factor is 0 at initSize 0 and reaches its maximum 1
\* at initSize 1: a particle is rendered with radius 0 at initSize 0, with the
\* whole max(0, size * osc) at initSize 1, and never with more than that.
C21_GrowsToOne ==
    particle.live =>
        /\ (particle.initSize = 0 => particle.radius = 0)
        /\ (particle.initSize = F => particle.radius = SteadyRadius)
        /\ particle.radius <= SteadyRadius

\* a particle whose ramp is complete is rendered with a positive radius
C21_Witness == particle.live /\ particle.initSize = F /\ particle.radius > 0

-----------------------------------------------------------------------------
\* C22: with a cursor diameter of 0 the force computation does not divide by
\* zero, and acceleration, velocity and position of the particle stay finite
\* numbers after every frame.
C22_ForcesStayFinite ==
    particle.live =>
        /\ IsFinite(particle.acceleration)
        /\ IsFinite(particle.velocity)
        /\ IsFinite(particle.position)

-----------------------------------------------------------------------------
\* C24: after every update the stored size of the particle is >= 0.
C24_StoredSizeNonNegative == particle.live => particle.size >= 0

-----------------------------------------------------------------------------
\* C25: initSize starts at 0, never decreases from one frame to the next, stays
\* in [0, 1], and stays 1 once it is 1, whatever initVelocity is configured.
C25_InitRamp ==
    [][/\ (~particle.live /\ particle'.live) => particle'.initSize = 0
       /\ (particle.live /\ particle'.live) =>
             /\ particle'.initSize >= particle.initSize
             /\ particle'.initSize \in 0..F
             /\ (particle.initSize = F => particle'.initSize = F)]_vars

-----------------------------------------------------------------------------
\* C26: every frame integrates the particle and leaves its acceleration at
\* (0, 0), so no cursor force is carried into a later frame.
C26_AccelerationReset ==
    [][particle.live => particle'.acceleration = <<0, 0>>]_vars

-----------------------------------------------------------------------------
\* the builder has been called on the instance
GridEntered == grid.done \/ grid.looping

ZeroSurface == width = 0 /\ height = 0

\* C23 (as stated): on a host box of zero width and height the builder returns an
\* empty particle set for every channel, in both modes, and divides by no zero.
C23_ZeroBoxNoDivision ==
    (GridEntered /\ ZeroSurface) =>
        /\ grid.done
        /\ grid.particles = << >>
        /\ \A c \in Channels : grid.counts[c] = 0
        /\ grid.divisor # 0

\* C23 (amended): on a host box of zero width and height the builder returns an
\* empty particle set for every channel, in both modes; it does divide by zero:
\* gridSize is 0, the loop bound is Math.ceil(0 / 0) = NaN, and no loop body runs.
C23_ZeroBoxEmpty ==
    (GridEntered /\ ZeroSurface) =>
        /\ grid.done
        /\ grid.particles = << >>
        /\ grid.count0 = 0
        /\ \A c \in Channels : grid.counts[c] = 0
        /\ grid.divisor = 0
        /\ GridLoopBound(This, options) = NaNComponent

\* the builder has returned the radial grid of a zero-size box
C23_Witness == grid.done /\ ZeroSurface /\ options.isRadial /\ grid.particles = << >>

-----------------------------------------------------------------------------
\* C29: on a surface of positive size the builder returns a finite particle set
\* for every option set, with dotSize 0 and negative dotSize too, in both modes.
C29_GridBuildingTerminates ==
    (GridEntered /\ width > 0 /\ height > 0) => (grid.done /\ ~grid.looping)

-----------------------------------------------------------------------------
\* the load callback of loadingImg runs
LoadCallback == loadingImg = "pending" /\ loadingImg' = "fired"

\* C28: a load callback that runs after destroy() does not hide the image
\* again, builds no particles and starts no animation loop: a destroyed
\* instance never becomes Running.
C28_LoadAfterDestroyIsNoOp ==
    [][(calls.destroy > 0 /\ LoadCallback) =>
           /\ imgStyle' = imgStyle
           /\ particles' = particles
           /\ raf' = raf
           /\ frames' = frames]_vars

-----------------------------------------------------------------------------
\* C27: the origin of a particle never changes once the particle is created, and
\* frames, pointer events and resize events leave the particle set of every
\* channel as it is: they change position, velocity, acceleration and the
\* size and init state of the existing particles only.
C27_OriginsFixed ==
    [][/\ particles' = particles
       /\ particle.live =>
             /\ particle'.live
             /\ particle'.origin = particle.origin
             /\ particle'.channel = particle.channel
             /\ particle'.naturalSize = particle.naturalSize]_vars

\* after a pointer event, the frames have moved a particle of the set off its
\* origin
C27_Witness ==
    /\ particle.live
    /\ particle.position # particle.origin
    /\ pointers.count > 0
    /\ particle.origin \in { particles[k].origin : k \in 1..Len(particles) }

-----------------------------------------------------------------------------
\* the preloader is showing: displayed and opaque
PreloaderVisible == tally.display = "flex" /\ tally.opacity = 1

\* C30: while a modal is open, its preloader stays visible for at least
\* minPreloaderMs from the opening, whatever openings and closings came before.
C30_PreloaderMinimum ==
    (tally.modal = "open" /\ tally.now < tally.shownAt + minPreloaderMs) => PreloaderVisible

=============================================================================
